---------------------------- MODULE Spec2Model ----------------------------
(***************************************************************************)
(* A model of src/lib.rs: the trait K1 (a type constructor with one slot  *)
(* and a substitution With<I>), the traits Functor, Applicative and Monad *)
(* built on it, and the two instances Identity<T> and Const<C, V>.        *)
(*                                                                         *)
(* Two levels are modelled.                                                *)
(*   - The type level: types are first-order terms, an impl of K1 is a    *)
(*     pair of type expressions (Inner, With<I>) over the impl's          *)
(*     parameters, projection is substitution, and the compiler checks    *)
(*     the three bounds of K1::With on placeholder types.  The state is   *)
(*     the set of impls written for the commentary's structs Id1 and Id2  *)
(*     next to the repository's own impls (specification TypeSpec).       *)
(*   - The value level: members are terms too, closures are named         *)
(*     functions whose invocations are logged, and every trait method is  *)
(*     an operator returning the result, the invocations it made and      *)
(*     whether it panicked (specification Spec).                          *)
(***************************************************************************)
EXTENDS Integers, Sequences, FiniteSets, TLC

VARIABLES
    impls,     \* the impls of K1 written for Id1 / Id2 (a set of impl records)
    checked,   \* TRUE once the compiler has run on the current program
    errors,    \* the bound violations the compiler reported: <<family, bound>>
    cur,       \* the member the client currently owns
    last,      \* the last call: its name, receiver, arguments and the call before it
    calls,     \* the closure invocations made by the last call, in order
    panicked   \* TRUE once a closure has panicked (the client has unwound)

typeVars  == <<impls, checked, errors>>
valueVars == <<cur, last, calls, panicked>>
vars      == <<impls, checked, errors, cur, last, calls, panicked>>

-----------------------------------------------------------------------------
(* Bounds of the model *)

\* how many ground (non-K1) types the slot may be filled with
NumGround == 3
\* integers carried by members range over 0 .. MaxInt
MaxInt == 5
\* deepest nesting of Identity(...) a member reaches
MaxDepth == 3

-----------------------------------------------------------------------------
(* Type terms.  A type is a tuple <<name, arg, ...>> whose args are types.  *)

GroundNames == <<"i32", "bool", "u8", "char", "u64", "i8">>

Ground == { <<GroundNames[n]>> : n \in 1..NumGround }

\* the result of projecting out of a type that does not implement K1
NoType == <<"!">>

\* the universally quantified types the compiler checks a bound on
SelfParams == << <<"!P1">>, <<"!P2">> >>
SlotParam  == <<"!I">>

\* generic structs: Identity<T>, Const<C, V>, and the commentary's Id1<T>, Id2<T>
Arity == [Identity |-> 1, Const |-> 2, Id1 |-> 1, Id2 |-> 1]

Families == DOMAIN Arity

Hypothetical == {"Id1", "Id2"}

\* type expressions of an impl: its parameters "$1", "$2" and the GAT parameter "$I"
TypeVars == {"$1", "$2", "$I"}

IsVar(e) == Len(e) = 1 /\ e[1] \in TypeVars

RECURSIVE Subst(_, _)
Subst(e, env) ==
    IF IsVar(e) THEN env[e[1]]
    ELSE [k \in 1..Len(e) |-> IF k = 1 THEN e[1] ELSE Subst(e[k], env)]

\* impl<T> K1 for Identity<T> { type Inner = T; type With<I> = Identity<I>; }
IdentityImpl ==
    [fam |-> "Identity", inner |-> <<"$1">>, with |-> <<"Identity", <<"$I">>>>]

\* impl<C, V> K1 for Const<C, V> { type Inner = V; type With<I> = Const<C, I>; }
ConstImpl ==
    [fam |-> "Const", inner |-> <<"$2">>, with |-> <<"Const", <<"$1">>, <<"$I">>>>]

RepoImpls == {IdentityImpl, ConstImpl}

\* the impls of K1 in the program being compiled
Program == RepoImpls \cup impls

ImplsFor(ty) == { r \in Program : r.fam = ty[1] }

\* ty: K1
Implements(ty) == ImplsFor(ty) # {}

ImplFor(ty) == CHOOSE r \in ImplsFor(ty) : TRUE

Env(ty, i) ==
    [v \in TypeVars |->
        CASE v = "$1" -> ty[2]
          [] v = "$2" -> IF Len(ty) >= 3 THEN ty[3] ELSE NoType
          [] v = "$I" -> i]

\* <ty as K1>::Inner
Inner(ty) ==
    IF Implements(ty) THEN Subst(ImplFor(ty).inner, Env(ty, NoType)) ELSE NoType

\* <ty as K1>::With<i>
With(ty, i) ==
    IF Implements(ty) THEN Subst(ImplFor(ty).with, Env(ty, i)) ELSE NoType

(* The three bounds on K1::With<I>, for Self = self and I = i. *)

\* With<I>: K1<Inner = I>
Bound1(self, i) ==
    Implements(With(self, i)) /\ Inner(With(self, i)) = i

\* faulty variant of the second bound: substitutes the slot type I back, not Self::Inner
Bound2_SlotNotInner(self, i) ==
    Implements(With(self, i)) /\ With(With(self, i), i) = self

\* With<I>: K1<With<Self::Inner> = Self>
Bound2(self, i) ==
    Implements(With(self, i)) /\ With(With(self, i), Inner(self)) = self

\* faulty variant of the third bound: only With<I>: K1 is kept
Bound3_Dropped(self, i) == Implements(With(self, i))

\* faulty variant of the third bound: the second bound stated twice
Bound3_SameAsBound2(self, i) ==
    Implements(With(self, i)) /\ With(With(self, i), Inner(self)) = self

\* With<I>: K1<With<I> = Self::With<I>>
Bound3(self, i) ==
    Implements(With(self, i)) /\ With(With(self, i), i) = With(self, i)

\* the Self type of the generic impl for family f, as the compiler sees it
GenericSelf(f) == [k \in 1..(Arity[f] + 1) |-> IF k = 1 THEN f ELSE SelfParams[k - 1]]

BoundHolds(n, self, i) ==
    CASE n = 1 -> Bound1(self, i)
      [] n = 2 -> Bound2(self, i)
      [] n = 3 -> Bound3(self, i)

\* what the compiler reports for the program: every impl's violated bounds
FailedBounds ==
    { e \in {r.fam : r \in Program} \X {1, 2, 3} :
        ~BoundHolds(e[2], GenericSelf(e[1]), SlotParam) }

(* The impls a client may write for a one-parameter struct. *)
InnerChoices == { <<"$1">>, <<GroundNames[1]>> }

WithChoices ==
    { <<g, a>> : g \in {f \in Families : Arity[f] = 1}, a \in { <<"$1">>, <<"$I">> } }
    \cup { <<g, a, b>> : g \in {f \in Families : Arity[f] = 2},
                         a \in { <<"$1">>, <<"$I">> }, b \in { <<"$1">>, <<"$I">> } }

CandidateImpls == [fam : Hypothetical, inner : InnerChoices, with : WithChoices]

(* The concrete types the laws are stated over. *)
ArgTypes == Ground \cup { <<"Identity", g>> : g \in Ground }

ConcreteTypes ==
    { <<f, a>> : f \in {g \in Families : Arity[g] = 1}, a \in ArgTypes }
    \cup { <<f, a, b>> : f \in {g \in Families : Arity[g] = 2}, a \in Ground, b \in ArgTypes }

-----------------------------------------------------------------------------
(* Type-level actions: editing the program and compiling it. *)

\* write `impl<T> K1 for Id1<T> { ... }`; a second impl for the same struct overlaps
WriteImpl(r) ==
    /\ r \in CandidateImpls
    /\ \A q \in impls : q.fam # r.fam
    /\ impls' = impls \cup {r}
    /\ checked' = FALSE
    /\ errors' = {}
    /\ UNCHANGED valueVars

DeleteImpl(r) ==
    /\ r \in impls
    /\ impls' = impls \ {r}
    /\ checked' = FALSE
    /\ errors' = {}
    /\ UNCHANGED valueVars

Rustc ==
    /\ ~checked
    /\ checked' = TRUE
    /\ errors' = FailedBounds
    /\ UNCHANGED <<impls, valueVars>>

-----------------------------------------------------------------------------
(* Values.  A value is a term too: <<"i32", n>>, Identity(x), Const(c, V). *)

IntVal(n) == <<"i32", n>>

IntVals == { IntVal(n) : n \in 0..MaxInt }

\* struct Identity<T>(T);
Identity(x) == <<"Identity", x>>

\* struct Const<C, V> { inner: C, _marker: PhantomData<V> }
Const(c, v) == <<"Const", c, <<"PhantomData", v>>>>

\* what is left of a binding whose value was moved away, or of a call that unwound
Moved == <<"!">>

RECURSIVE TypeOf(_)
TypeOf(v) ==
    CASE v[1] = "i32" -> <<"i32">>
      [] v[1] = "Identity" -> <<"Identity", TypeOf(v[2])>>
      [] v[1] = "Const" -> <<"Const", TypeOf(v[2]), v[3][2]>>
      [] OTHER -> NoType

\* how deep Identity is nested, in a value or in a type
RECURSIVE Depth(_)
Depth(v) == IF v[1] = "Identity" THEN 1 + Depth(v[2]) ELSE 0

(* Closures a client passes.  Each is FnOnce; the model logs every invocation. *)

\*   id      |v| v
\*   inc     |n: i32| (n + 1) wrapping within 0 .. MaxInt
\*   zero    |_| 0
\*   wrap    |v| Identity(v)
\*   wrapInc |n: i32| Identity(n + 1)
\*   panic   |_| -> bool { panic!() }
\*   abort   |_| -> Identity<i32> { panic!() }
Closures1 == {"id", "inc", "zero", "wrap", "wrapInc", "panic", "abort"}

\*   add |a: i32, b: i32| a + b      sub |a: i32, b: i32| a - b   (both wrapping)
\*   fst |a, _| a                    snd |_, b| b
Closures2 == {"add", "sub", "fst", "snd"}

Panicking == {"panic", "abort"}

\* the closure's parameter types unify with the given argument types
Accepts(f, tys) ==
    CASE f \in {"inc", "wrapInc"} -> tys = << <<"i32">> >>
      [] f \in {"add", "sub"} -> tys = << <<"i32">>, <<"i32">> >>
      [] f \in {"fst", "snd"} -> Len(tys) = 2
      [] OTHER -> Len(tys) = 1

\* the closure's return type, given its argument types
RetType(f, tys) ==
    CASE f = "id" -> tys[1]
      [] f \in {"inc", "zero", "add", "sub"} -> <<"i32">>
      [] f = "wrap" -> <<"Identity", tys[1]>>
      [] f \in {"wrapInc", "abort"} -> <<"Identity", <<"i32">>>>
      [] f = "panic" -> <<"bool">>
      [] f = "fst" -> tys[1]
      [] f = "snd" -> tys[2]

\* the value the closure's body returns (a panicking body returns nothing)
Body(f, args) ==
    CASE f = "id" -> args[1]
      [] f = "inc" -> IntVal((args[1][2] + 1) % (MaxInt + 1))
      [] f = "zero" -> IntVal(0)
      [] f = "wrap" -> Identity(args[1])
      [] f = "wrapInc" -> Identity(IntVal((args[1][2] + 1) % (MaxInt + 1)))
      [] f = "add" -> IntVal((args[1][2] + args[2][2]) % (MaxInt + 1))
      [] f = "sub" -> IntVal((args[1][2] - args[2][2]) % (MaxInt + 1))
      [] f = "fst" -> args[1]
      [] f = "snd" -> args[2]
      [] OTHER -> Moved

\* f(args): the value returned, and whether the call panicked instead
Invoke(f, args) == [ret |-> Body(f, args), panic |-> f \in Panicking]

\* the outcome of a method: its return value, the closure invocations it made, in
\* order, and whether it unwound
Returned(v) == [ret |-> v, calls |-> <<>>, panic |-> FALSE]

-----------------------------------------------------------------------------
(* The trait methods of Identity<A> and Const<C, A>. *)

\* faulty variant of fmap: f is applied to its own result again
Identity_fmap_Twice(self, f) ==
    LET r == Invoke(f, <<self[2]>>)
        q == Invoke(f, <<r.ret>>)
    IN  IF r.panic
        THEN [ret |-> Moved, calls |-> << <<f, <<self[2]>>>> >>, panic |-> TRUE]
        ELSE [ret |-> Identity(q.ret),
              calls |-> << <<f, <<self[2]>>>>, <<f, <<r.ret>>>> >>, panic |-> FALSE]

\* fn fmap<B>(self, f: impl FnOnce(A) -> B) -> Identity<B> { Identity(f(self.0)) }
Identity_fmap(self, f) ==
    LET r == Invoke(f, <<self[2]>>)
    IN  [ret |-> IF r.panic THEN Moved ELSE Identity(r.ret),
         calls |-> << <<f, <<self[2]>>>> >>,
         panic |-> r.panic]

\* fn pure(val: A) -> Identity<A> { Identity(val) }
Identity_pure(val) == Returned(Identity(val))

\* faulty variant of zip_with: f receives (b.0, self.0)
Identity_zip_with_Swapped(self, b, f) ==
    LET r == Invoke(f, <<b[2], self[2]>>)
    IN  [ret |-> IF r.panic THEN Moved ELSE Identity(r.ret),
         calls |-> << <<f, <<b[2], self[2]>>>> >>,
         panic |-> r.panic]

\* fn zip_with<B, C>(self, b: Identity<B>, f: impl FnOnce(A, B) -> C) -> Identity<C>
\*     { Identity(f(self.0, b.0)) }
Identity_zip_with(self, b, f) ==
    LET r == Invoke(f, <<self[2], b[2]>>)
    IN  [ret |-> IF r.panic THEN Moved ELSE Identity(r.ret),
         calls |-> << <<f, <<self[2], b[2]>>>> >>,
         panic |-> r.panic]

\* faulty variant of bind: the member f returns is wrapped once more
Identity_bind_Rewraps(self, f) ==
    LET r == Invoke(f, <<self[2]>>)
    IN  [ret |-> IF r.panic THEN Moved ELSE Identity(r.ret),
         calls |-> << <<f, <<self[2]>>>> >>,
         panic |-> r.panic]

\* fn bind<B>(self, f: impl FnOnce(A) -> Identity<B>) -> Identity<B> { f(self.0) }
Identity_bind(self, f) ==
    LET r == Invoke(f, <<self[2]>>)
    IN  [ret |-> r.ret, calls |-> << <<f, <<self[2]>>>> >>, panic |-> r.panic]

\* faulty variant of flatten: returns self, not self.0
Identity_flatten_KeepsNesting(self) == Returned(self)

\* fn flatten(self) -> Self::Inner { self.0 }
Identity_flatten(self) == Returned(self[2])

\* where Self::Inner: K1<With<A> = Self>, with A = Self::Inner
FlattenBound(selfTy) ==
    Implements(Inner(selfTy)) /\ With(Inner(selfTy), Inner(selfTy)) = selfTy

\* faulty variant of Const's fmap: the closure is called on the auxiliary value
Const_fmap_Invokes(self, f, b) ==
    LET r == Invoke(f, <<self[2]>>)
    IN  [ret |-> IF r.panic THEN Moved ELSE Const(self[2], b),
         calls |-> << <<f, <<self[2]>>>> >>,
         panic |-> r.panic]

\* faulty variant of Const's fmap: the auxiliary value is rebuilt as 0
Const_fmap_DefaultInner(self, f, b) == Returned(Const(IntVal(0), b))

\* fn fmap<B>(self, _: impl FnOnce(A) -> B) -> Const<C, B>
\*     { Const { inner: self.inner, _marker: PhantomData } }
Const_fmap(self, f, b) == Returned(Const(self[2], b))

-----------------------------------------------------------------------------
(* Value-level actions: a client that owns one member and calls the methods. *)

NoCall == [op |-> "none", self |-> Moved, arg |-> Moved, f |-> "none", from |-> "none"]

\* the member moves into the call; the client owns what the call returns
Finish(op, arg, f, r) ==
    /\ cur' = r.ret
    /\ calls' = r.calls
    /\ panicked' = r.panic
    /\ last' = [op |-> op, self |-> cur, arg |-> arg, f |-> f, from |-> last.op]
    /\ UNCHANGED typeVars

CallIdentityFmap(f) ==
    /\ ~panicked
    /\ cur[1] = "Identity"
    /\ Accepts(f, <<Inner(TypeOf(cur))>>)
    /\ LET r == Identity_fmap(cur, f)
       IN  /\ Depth(r.ret) <= MaxDepth
           /\ Finish("Identity::fmap", Moved, f, r)

CallIdentityPure(val) ==
    /\ ~panicked
    /\ LET r == Identity_pure(val)
       IN  /\ cur' = r.ret
           /\ calls' = r.calls
           /\ panicked' = r.panic
           /\ last' = [op |-> "Identity::pure", self |-> Moved, arg |-> val,
                       f |-> "none", from |-> last.op]
           /\ UNCHANGED typeVars

CallIdentityZipWith(b, f) ==
    /\ ~panicked
    /\ cur[1] = "Identity"
    /\ Implements(TypeOf(b))
    /\ TypeOf(b) = With(TypeOf(cur), Inner(TypeOf(b)))
    /\ Accepts(f, <<Inner(TypeOf(cur)), Inner(TypeOf(b))>>)
    /\ Finish("Identity::zip_with", b, f, Identity_zip_with(cur, b, f))

CallIdentityBind(f) ==
    /\ ~panicked
    /\ cur[1] = "Identity"
    /\ Accepts(f, <<Inner(TypeOf(cur))>>)
    /\ LET rt == RetType(f, <<Inner(TypeOf(cur))>>)
           r  == Identity_bind(cur, f)
       IN  /\ Implements(rt)
           /\ rt = With(TypeOf(cur), Inner(rt))
           /\ Depth(r.ret) <= MaxDepth
           /\ Finish("Identity::bind", Moved, f, r)

CallIdentityFlatten ==
    /\ ~panicked
    /\ cur[1] = "Identity"
    /\ FlattenBound(TypeOf(cur))
    /\ Finish("Identity::flatten", Moved, "none", Identity_flatten(cur))

\* Const { inner: c, _marker: PhantomData::<V> }
NewConst(c, v) ==
    /\ ~panicked
    /\ cur' = Const(c, v)
    /\ calls' = <<>>
    /\ panicked' = FALSE
    /\ last' = [op |-> "Const", self |-> Moved, arg |-> c, f |-> "none", from |-> last.op]
    /\ UNCHANGED typeVars

CallConstFmap(f) ==
    /\ ~panicked
    /\ cur[1] = "Const"
    /\ Accepts(f, <<Inner(TypeOf(cur))>>)
    /\ LET b == RetType(f, <<Inner(TypeOf(cur))>>)
       IN  /\ Depth(b) <= MaxDepth
           /\ Finish("Const::fmap", Moved, f, Const_fmap(cur, f, b))

-----------------------------------------------------------------------------
(* Specifications *)

TypeInit == impls = {} /\ checked = FALSE /\ errors = {}

ValueInit ==
    /\ cur = Identity(IntVal(0))
    /\ last = NoCall
    /\ calls = <<>>
    /\ panicked = FALSE

Init == TypeInit /\ ValueInit

\* the values a client lifts: integers and identity members of integers
Liftable == IntVals \cup { Identity(x) : x \in IntVals }

Next ==
    \/ \E f \in Closures1 : CallIdentityFmap(f)
    \/ \E val \in Liftable : CallIdentityPure(val)
    \/ \E b \in { Identity(x) : x \in IntVals }, f \in Closures2 : CallIdentityZipWith(b, f)
    \/ \E f \in Closures1 : CallIdentityBind(f)
    \/ CallIdentityFlatten
    \/ \E c \in IntVals, v \in Ground : NewConst(c, v)
    \/ \E f \in Closures1 : CallConstFmap(f)

\* the client program: calls on the repository's instances
Spec == Init /\ [][Next]_vars

TypeNext ==
    \/ \E r \in CandidateImpls : WriteImpl(r)
    \/ \E r \in impls : DeleteImpl(r)
    \/ Rustc

\* the program's K1 impls being edited and compiled
TypeSpec == Init /\ [][TypeNext]_vars

-----------------------------------------------------------------------------
(* Claims about the kind abstraction K1 (checked under TypeSpec). *)

\* the compiler has run and reported no violated bound for ty's impl
Legal(ty) == checked /\ Implements(ty) /\ \A n \in {1, 2, 3} : <<ty[1], n>> \notin errors

\* the commentary's first pair: Id1<T>::With<I> = Id2<I>, Id2<T>::With<I> = Id2<I>
PairA ==
    { [fam |-> "Id1", inner |-> <<"$1">>, with |-> <<"Id2", <<"$I">>>>],
      [fam |-> "Id2", inner |-> <<"$1">>, with |-> <<"Id2", <<"$I">>>>] }

\* the commentary's second pair: Id1<T>::With<I> = Id2<I>, Id2<T>::With<I> = Id1<I>
PairB ==
    { [fam |-> "Id1", inner |-> <<"$1">>, with |-> <<"Id2", <<"$I">>>>],
      [fam |-> "Id2", inner |-> <<"$1">>, with |-> <<"Id1", <<"$I">>>>] }

\* C3: once the program has been compiled, the impls of Identity<T> and Const<C, V>
\* violate no bound, and every type F whose impl of K1 violates none of the three
\* bounds on K1::With satisfies F::With<F::Inner> = F.
C3_WithInnerIsSelf ==
    checked =>
        /\ \A e \in errors : e[1] \in Hypothetical
        /\ \A F \in ConcreteTypes : Legal(F) => With(F, Inner(F)) = F

\* C3 witness: an accepted impl written for Id1, and its types are their own
\* substitution at their own slot type.
C3_Witness ==
    /\ checked
    /\ \E r \in impls : r.fam = "Id1"
    /\ \E F \in ConcreteTypes : F[1] = "Id1" /\ Legal(F) /\ With(F, Inner(F)) = F

\* C4: for every type F whose impl of K1 violates none of the three bounds, and all
\* types I and J, chained substitution equals direct substitution:
\* F::With<I>::With<J> = F::With<J>.
C4_WithIsPathIndependent ==
    \A F \in ConcreteTypes :
        Legal(F) => \A I \in ArgTypes, J \in ArgTypes : With(With(F, I), J) = With(F, J)

\* C4 witness: a compiled program in which both Id1 and Id2 have accepted impls, so
\* the law is exercised on impls other than the repository's.
C4_Witness ==
    /\ checked
    /\ errors = {}
    /\ {r.fam : r \in impls} = Hypothetical
    /\ \E F \in ConcreteTypes, I \in ArgTypes, J \in ArgTypes :
          F[1] = "Id2" /\ I # J /\ J # Inner(F) /\ With(With(F, I), J) = With(F, J)

\* C5: each of the two cross-referencing pairs of the commentary is rejected: the
\* compiler reports a violated bound, and some bound fails at some concrete T, I.
C5_CrossPairsRejected ==
    (checked /\ impls \in {PairA, PairB}) =>
        /\ errors # {}
        /\ \E F \in ConcreteTypes, I \in ArgTypes, n \in {1, 2, 3} :
              F[1] \in Hypothetical /\ ~BoundHolds(n, F, I)

\* C5 witness: the first pair has been compiled and rejected.
C5_Witness == checked /\ impls = PairA /\ errors # {}

\* C10: the mutually cross-referencing pair satisfies the first two bounds for all
\* T, I and is rejected by the third bound alone, whereas the pair in which both
\* impls point at Id2 is already rejected by the second bound.
C10_ThirdBoundNecessary ==
    /\ (checked /\ impls = PairB) =>
          /\ errors # {}
          /\ \A e \in errors : e[2] = 3
          /\ \A F \in ConcreteTypes, I \in ArgTypes :
                F[1] \in Hypothetical => Bound1(F, I) /\ Bound2(F, I)
    /\ (checked /\ impls = PairA) => \E e \in errors : e[2] = 2

\* C10 witness: the mutually cross-referencing pair has been compiled, and the only
\* violations reported are of the third bound, one per impl.
C10_Witness ==
    checked /\ impls = PairB /\ errors = { <<"Id1", 3>>, <<"Id2", 3>> }

-----------------------------------------------------------------------------
(* Claims about the methods (checked under Spec). *)

\* the values of nesting depth at most d
RECURSIVE Wrapped(_)
Wrapped(d) ==
    IF d = 0 THEN IntVals
    ELSE LET W == Wrapped(d - 1) IN W \cup { Identity(x) : x \in W }

Values == Wrapped(MaxDepth)

FmapCalls == {"Identity::fmap", "Const::fmap"}

\* C1: flatten of the doubly wrapped member Identity(Identity(x)) returns exactly
\* Identity(x): one level is removed, nothing is transformed, no closure runs.
C1_FlattenRemovesOneLevel ==
    last.op = "Identity::flatten" =>
        /\ ~panicked
        /\ calls = <<>>
        /\ \E x \in Values : last.self = Identity(Identity(x))
        /\ \A x \in Values : last.self = Identity(Identity(x)) => cur = Identity(x)

\* C1 witness: the literal case, Identity(Identity(0)).flatten() == Identity(0).
C1_Witness ==
    /\ last.op = "Identity::flatten"
    /\ last.self = Identity(Identity(IntVal(0)))
    /\ cur = Identity(IntVal(0))

\* C2: Const's fmap returns a Const whose auxiliary value is the receiver's, and
\* it never invokes f: nothing is logged and nothing panics, whatever f is.
C2_ConstFmapKeepsInner ==
    last.op = "Const::fmap" =>
        /\ ~panicked
        /\ calls = <<>>
        /\ cur[1] = "Const"
        /\ cur[2] = last.self[2]

\* C2 witness: fmap of a Const with a closure that would panic has returned.
C2_Witness ==
    /\ last.op = "Const::fmap"
    /\ last.f \in Panicking
    /\ ~panicked
    /\ cur[2] = last.self[2]

\* C6 as stated: every fmap of the repository invokes f exactly once.
C6_EveryFmapInvokesOnce ==
    last.op \in FmapCalls => Len(calls) = 1 /\ calls[1][1] = last.f

\* C6 amended: Identity's fmap invokes f exactly once, on the held value, within
\* the call; Const's fmap does not invoke f; so no fmap invokes f more than once.
C6_FmapInvokesAtMostOnce ==
    /\ last.op = "Identity::fmap" => calls = << <<last.f, <<last.self[2]>>>> >>
    /\ last.op = "Const::fmap" => calls = <<>>
    /\ last.op \in FmapCalls => Len(calls) <= 1

\* C6 witness: Identity(0).fmap(inc) has returned Identity(1) after one invocation.
C6_Witness ==
    /\ last.op = "Identity::fmap"
    /\ last.f = "inc"
    /\ calls = << <<"inc", <<IntVal(0)>>>> >>
    /\ cur = Identity(IntVal(1))

\* C7: mapping the identity function over a member of either family yields a
\* member equal to the receiver.
C7_FunctorIdentityLaw ==
    (last.op \in FmapCalls /\ last.f = "id") => ~panicked /\ cur = last.self

\* C7 witness: a Const with a non-zero auxiliary value has been mapped with id.
C7_Witness ==
    /\ last.op = "Const::fmap"
    /\ last.f = "id"
    /\ last.self[2] = IntVal(1)
    /\ cur = last.self

\* C8: pure(x).bind(f) behaves as f(x): f is applied exactly once, to x, and the
\* result is what f returned, with no wrapping added (if f panics, so does bind).
C8_BindLeftIdentity ==
    last.op = "Identity::bind" =>
        \A x \in Values :
            last.self = Identity_pure(x).ret =>
                /\ calls = << <<last.f, <<x>>>> >>
                /\ panicked = Invoke(last.f, <<x>>).panic
                /\ ~panicked => cur = Invoke(last.f, <<x>>).ret

\* C8 witness: Identity::pure(0).bind(wrapInc) has returned Identity(1).
C8_Witness ==
    /\ last.op = "Identity::bind"
    /\ last.from = "Identity::pure"
    /\ last.self = Identity(IntVal(0))
    /\ last.f = "wrapInc"
    /\ cur = Identity(IntVal(1))

\* C9: Identity(a).zip_with(Identity(b), f) is Identity(f(a, b)), with f invoked
\* exactly once, on (a, b) in that order.
C9_ZipWithCombines ==
    last.op = "Identity::zip_with" =>
        \A a \in Values, b \in Values :
            (last.self = Identity(a) /\ last.arg = Identity(b)) =>
                /\ ~panicked
                /\ calls = << <<last.f, <<a, b>>>> >>
                /\ cur = Identity(Body(last.f, <<a, b>>))

\* C9 witness: the literal case, members wrapping 2 and 3 combined with addition
\* give a member wrapping 5.
C9_Witness ==
    /\ last.op = "Identity::zip_with"
    /\ last.self = Identity(IntVal(2))
    /\ last.arg = Identity(IntVal(3))
    /\ last.f = "add"
    /\ cur = Identity(IntVal(5))

=============================================================================
